---- MODULE Spec2Model ----
(***************************************************************************)
(* Model of the query-building and clause-composition engine:              *)
(* baseQuery, WhereQuery, whereBaseQuery (query_base.go) and               *)
(* CreateIndexQuery (unnamed/part_000).                                    *)
(*                                                                         *)
(* Byte buffers are sequences of non-empty string chunks; Text(b) is the   *)
(* byte string the buffer holds.                                           *)
(***************************************************************************)
EXTENDS Integers, Sequences, FiniteSets, TLC

\* ------------------------------------------------------------------------
\* Bounds of the model
\* ------------------------------------------------------------------------
MaxColumns == 3
MaxTables == 2
MaxWhere == 5
MaxInclude == 2
MaxExclude == 2
MaxIndexList == 1
MaxCalls == 2
MaxPKWhere == 1
MaxSlice == 3
MaxReturning == 2
MaxReturningFields == 2
MaxIndexEntries == 2

\* ------------------------------------------------------------------------
\* Flags (internal.Flag bitset)
\* ------------------------------------------------------------------------
wherePKFlag == 1
deletedFlag == 2
allWithDeletedFlag == 4

Has(f, flag) == (f \div flag) % 2 = 1
Set(f, flag) == IF Has(f, flag) THEN f ELSE f + flag
Remove(f, flag) == IF Has(f, flag) THEN f - flag ELSE f

\* ------------------------------------------------------------------------
\* Byte buffers
\* ------------------------------------------------------------------------
NilBuf == [isNil |-> TRUE, chunks |-> <<>>]
Buf(chunks) == [isNil |-> FALSE, chunks |-> chunks]

\* append(b, s...): appending to a nil slice gives a non-nil slice only if
\* bytes are added; an empty s leaves b as it is.
AppendStr(b, s) == IF s = "" THEN b ELSE Buf(b.chunks \o <<s>>)

RECURSIVE Concat(_)
Concat(chunks) ==
    IF chunks = <<>> THEN "" ELSE Head(chunks) \o Concat(Tail(chunks))

Text(b) == Concat(b.chunks)
BLen(b) == Len(Text(b))

\* ------------------------------------------------------------------------
\* Fragments (sqlfmt.QueryWithArgs / sqlfmt.QueryWithSep)
\* ------------------------------------------------------------------------
NilArgs == [isNil |-> TRUE, vals |-> <<>>]
ArgsOf(vals) == [isNil |-> FALSE, vals |-> vals]

SafeQuery(query, args) == [Query |-> query, Args |-> args]
UnsafeIdent(ident) == [Query |-> ident, Args |-> NilArgs]
SafeQueryWithSep(query, args, sep) == [Query |-> query, Args |-> args, Sep |-> sep]
ZeroQuery == [Query |-> "", Args |-> NilArgs]
IsZero(q) == q.Query = "" /\ q.Args.isNil

\* The formatters a caller can render with: the no-op formatter (template
\* mode) and a real dialect formatter.
Formatters == {"nop", "fmt"}
IsNopFormatter(fmter) == fmter = "nop"

\* A query text whose formatting fails at render time.
BadQuery == "?bad"
ErrFormat == "sqlfmt: can't format ?bad"

\* Query texts with one positional placeholder, split around it.
Placeholder == [q \in {"a = ?"} |-> [pre |-> "a = ", post |-> ""]]

FormatQuery(fmter, query, vals) ==
    IF IsNopFormatter(fmter) \/ vals = <<>> \/ query \notin DOMAIN Placeholder
    THEN query
    ELSE Placeholder[query].pre \o vals[1] \o Placeholder[query].post

\* QueryWithArgs.AppendQuery: [b, err]
NoErr == "<nil>"
Ok(b) == [b |-> b, err |-> NoErr, panic |-> FALSE]
Fail(e) == [b |-> NilBuf, err |-> e, panic |-> FALSE]
\* A call that does not return: nil dereference or index out of range
Panic == [b |-> NilBuf, err |-> NoErr, panic |-> TRUE]
\* What a builder call leaves as the result of the last render
NoResult == [b |-> NilBuf, err |-> NoErr, panic |-> FALSE]

FragAppendQuery(fmter, b, q) ==
    IF q.Query = BadQuery THEN Fail(ErrFormat)
    ELSE IF q.Args.isNil THEN Ok(AppendStr(b, q.Query))
    ELSE Ok(AppendStr(b, FormatQuery(fmter, q.Query, q.Args.vals)))

\* The loops of AppendQuery over q.columns and q.include, of
\* appendOtherTables over the tables and of appendReturning over
\* q.returning: the fragments from element i on, joined by ", "
RECURSIVE appendListFrom(_, _, _, _)
appendListFrom(fmter, b, list, i) ==
    IF i > Len(list) THEN Ok(b)
    ELSE LET b1 == IF i > 1 THEN AppendStr(b, ", ") ELSE b
             r == FragAppendQuery(fmter, b1, list[i])
         IN IF r.err # NoErr THEN Fail(r.err)
            ELSE appendListFrom(fmter, r.b, list, i + 1)

\* ------------------------------------------------------------------------
\* Table metadata (schema.Table, schema.Field)
\* ------------------------------------------------------------------------
Field(name, sqlName, isPK) == [Name |-> name, SQLName |-> sqlName, IsPK |-> isPK]

NoField == [Name |-> "", SQLName |-> "", IsPK |-> FALSE]

F_id == Field("id", "id", TRUE)
F_tenant == Field("tenant", "tenant", TRUE)
F_note == Field("note", "note", FALSE)
F_name == Field("name", "name", FALSE)
F_deleted == Field("deleted_at", "deleted_at", FALSE)
F_msg == Field("msg", "msg", FALSE)

NoTable == "nil"

\* The tables a model can be bound to:
\*   orders: two-column primary key, alias differs from the name, no soft delete
\*   users:  one-column primary key, soft-delete field
\*   logs:   no primary key, alias equal to the name
Tables ==
    [orders |-> [SQLName |-> "orders", Alias |-> "t",
                 Fields |-> <<F_id, F_tenant, F_note>>,
                 PKs |-> <<F_id, F_tenant>>,
                 DataFields |-> <<F_note>>,
                 SoftDeleteField |-> NoField],
     users  |-> [SQLName |-> "users", Alias |-> "u",
                 Fields |-> <<F_id, F_name, F_deleted>>,
                 PKs |-> <<F_id>>,
                 DataFields |-> <<F_name, F_deleted>>,
                 SoftDeleteField |-> F_deleted],
     logs   |-> [SQLName |-> "logs", Alias |-> "logs",
                 Fields |-> <<F_msg>>,
                 PKs |-> <<>>,
                 DataFields |-> <<F_msg>>,
                 SoftDeleteField |-> NoField]]

HasSoftDelete(t) == Tables[t].SoftDeleteField # NoField

\* Table.CheckPKs
ErrNoPKs(t) == "bun: " \o t \o " does not have primary keys"
CheckPKs(t) == IF Tables[t].PKs = <<>> THEN ErrNoPKs(t) ELSE NoErr

\* Table.Field: [field, err], the field of table t named name
ErrUnknownColumn(t, name) == "bun: " \o t \o " does not have column=" \o name
TableField(t, name) ==
    LET fs == Tables[t].Fields IN
    IF \E i \in 1..Len(fs) : fs[i].Name = name
    THEN [field |-> fs[CHOOSE i \in 1..Len(fs) : fs[i].Name = name], err |-> NoErr]
    ELSE [field |-> NoField, err |-> ErrUnknownColumn(t, name)]

\* Field.AppendValue: the literal of the field's value in a struct
AppendValue(b, f, strct) == AppendStr(b, strct[f.Name])

\* ------------------------------------------------------------------------
\* Models (newSingleModel)
\* ------------------------------------------------------------------------
NoModel == [kind |-> "nil"]

Row_orders == [id |-> "5", tenant |-> "'acme'", note |-> "'n'"]
Row_users == [id |-> "1", name |-> "'bob'", deleted_at |-> "NULL"]
Row_users2 == [id |-> "2", name |-> "'eve'", deleted_at |-> "NULL"]
Row_logs == [msg |-> "'m'"]

StructModel(t, row) == [kind |-> "struct", table |-> t, strct |-> row]
SliceModel(t, rows) == [kind |-> "slice", table |-> t, slice |-> rows]

\* What a caller can pass to Model(): a value that does not resolve, a
\* value that resolves to a model without a table (a map or scalar
\* destination), a struct, or a slice of structs.
ModelInputs ==
    { [kind |-> "bad"], [kind |-> "map"],
      StructModel("orders", Row_orders),
      StructModel("users", Row_users),
      StructModel("logs", Row_logs),
      SliceModel("users", <<Row_users, Row_users2>>) }

\* The i-th element of a slice of users: its id is i
UserRow(i) == [id |-> ToString(i), name |-> "'n'", deleted_at |-> "NULL"]
UserRows(n) == [i \in 1..n |-> UserRow(i)]

\* Slices a caller can pass to Model(): 0..MaxSlice users, or two orders
SliceInputs ==
    {SliceModel("users", UserRows(n)) : n \in 0..MaxSlice}
        \cup {SliceModel("orders", <<Row_orders, [Row_orders EXCEPT !.id = "6"]>>)}

ErrModel == "bun: Model(nil)"

\* newSingleModel: [model, err]
newSingleModel(modeli) ==
    IF modeli.kind = "bad"
    THEN [model |-> NoModel, err |-> ErrModel]
    ELSE [model |-> modeli, err |-> NoErr]

IsTableModel(m) == m.kind \in {"struct", "slice"}

\* ------------------------------------------------------------------------
\* Builder state
\* ------------------------------------------------------------------------
VARIABLES
    err,          \* baseQuery.err, the sticky first error
    model,        \* baseQuery.model
    tableModel,   \* baseQuery.tableModel
    table,        \* baseQuery.table (a name in Tables, or NoTable)
    modelTable,   \* baseQuery.modelTable
    tables,       \* baseQuery.tables
    columns,      \* baseQuery.columns: [isNil, elems]
    flags,        \* baseQuery.flags
    where,        \* WhereQuery.where
    calls,        \* the Where / WhereOr / WhereGroup calls made so far, in order
    unique, concurrently, ifNotExists,   \* CreateIndexQuery switches
    index, using, include,               \* CreateIndexQuery fragments
    returning,    \* returningQuery.returning
    returningFields,   \* returningQuery.returningFields
    last,         \* the call made last: [op, out, ...inputs]
    res           \* what the last call returned, if it was a render: [b, err, panic]

baseVars == <<err, model, tableModel, table, modelTable, tables, columns, flags>>
whereVars == <<where, calls>>
indexVars == <<unique, concurrently, ifNotExists, index, using, include>>
retVars == <<returning, returningFields>>
vars == <<baseVars, whereVars, indexVars, retVars, last, res>>

\* CreateIndexQuery.fulltext / spatial have no setter
fulltext == FALSE
spatial == FALSE

NilSlice == [isNil |-> TRUE, elems |-> <<>>]
Slice(elems) == [isNil |-> FALSE, elems |-> elems]

\* NewCreateIndexQuery
Init ==
    /\ err = NoErr
    /\ model = NoModel
    /\ tableModel = NoModel
    /\ table = NoTable
    /\ modelTable = ZeroQuery
    /\ tables = <<>>
    /\ columns = NilSlice
    /\ flags = 0
    /\ where = <<>>
    /\ calls = <<>>
    /\ unique = FALSE
    /\ concurrently = FALSE
    /\ ifNotExists = FALSE
    /\ index = ZeroQuery
    /\ using = ZeroQuery
    /\ include = <<>>
    /\ returning = <<>>
    /\ returningFields = <<>>
    /\ last = [op |-> "new", out |-> "ok"]
    /\ res = NoResult

\* ------------------------------------------------------------------------
\* baseQuery: errors, model binding, soft-delete flags
\* ------------------------------------------------------------------------
\* setErr without the q.err == nil test: the last error wins
setErr_overwrite(cur, e) == e

\* baseQuery.setErr: the value of q.err after setErr(e)
setErr(cur, e) == IF cur = NoErr THEN e ELSE cur

\* baseQuery.setTableModel / CreateIndexQuery.Model
Model(modeli) ==
    LET r == newSingleModel(modeli) IN
    /\ IF r.err # NoErr
       THEN /\ err' = setErr(err, r.err)
            /\ UNCHANGED <<model, tableModel, table>>
       ELSE /\ model' = r.model
            /\ IF IsTableModel(r.model)
               THEN /\ tableModel' = r.model
                    /\ table' = r.model.table
               ELSE UNCHANGED <<tableModel, table>>
            /\ UNCHANGED err
    /\ last' = [op |-> "Model", out |-> "ok", kind |-> modeli.kind]
    /\ res' = NoResult
    /\ UNCHANGED retVars
    /\ UNCHANGED <<modelTable, tables, columns, flags, whereVars, indexVars>>

ErrSoftDeleteNoTable == "bun: can't use soft deletes without a table"
ErrSoftDeleteNoField(t) == t \o " does not have a soft delete field"
ErrSoftDeleteNoModel == "bun: can't use soft deletes without a table model"

\* baseQuery.checkSoftDelete
checkSoftDelete ==
    IF table = NoTable THEN ErrSoftDeleteNoTable
    ELSE IF ~HasSoftDelete(table) THEN ErrSoftDeleteNoField(table)
    ELSE IF tableModel = NoModel THEN ErrSoftDeleteNoModel
    ELSE NoErr

\* whereDeleted that switches the flags before checking the table
whereDeleted_flagsFirst ==
    LET e == checkSoftDelete IN
    /\ flags' = Remove(Set(flags, deletedFlag), allWithDeletedFlag)
    /\ err' = IF e # NoErr THEN setErr(err, e) ELSE err
    /\ last' = [op |-> "whereDeleted", out |-> "ok", e |-> e, flags |-> flags,
                err |-> err]
    /\ res' = NoResult
    /\ UNCHANGED retVars
    /\ UNCHANGED <<model, tableModel, table, modelTable, tables, columns,
                   whereVars, indexVars>>

\* baseQuery.whereDeleted
whereDeleted ==
    LET e == checkSoftDelete IN
    /\ IF e # NoErr
       THEN /\ err' = setErr(err, e)
            /\ UNCHANGED flags
       ELSE /\ flags' = Remove(Set(flags, deletedFlag), allWithDeletedFlag)
            /\ UNCHANGED err
    /\ last' = [op |-> "whereDeleted", out |-> "ok", e |-> e, flags |-> flags,
                err |-> err]
    /\ res' = NoResult
    /\ UNCHANGED retVars
    /\ UNCHANGED <<model, tableModel, table, modelTable, tables, columns,
                   whereVars, indexVars>>

\* whereAllWithDeleted that does not clear deletedFlag
whereAllWithDeleted_noRemove ==
    LET e == checkSoftDelete IN
    /\ IF e # NoErr
       THEN /\ err' = setErr(err, e)
            /\ UNCHANGED flags
       ELSE /\ flags' = Set(flags, allWithDeletedFlag)
            /\ UNCHANGED err
    /\ last' = [op |-> "whereAllWithDeleted", out |-> "ok", e |-> e, flags |-> flags,
                err |-> err]
    /\ res' = NoResult
    /\ UNCHANGED retVars
    /\ UNCHANGED <<model, tableModel, table, modelTable, tables, columns,
                   whereVars, indexVars>>

\* baseQuery.whereAllWithDeleted
whereAllWithDeleted ==
    LET e == checkSoftDelete IN
    /\ IF e # NoErr
       THEN /\ err' = setErr(err, e)
            /\ UNCHANGED flags
       ELSE /\ flags' = Remove(Set(flags, allWithDeletedFlag), deletedFlag)
            /\ UNCHANGED err
    /\ last' = [op |-> "whereAllWithDeleted", out |-> "ok", e |-> e, flags |-> flags,
                err |-> err]
    /\ res' = NoResult
    /\ UNCHANGED retVars
    /\ UNCHANGED <<model, tableModel, table, modelTable, tables, columns,
                   whereVars, indexVars>>

\* The restrict-to-PK switch of the statement builders (WherePK)
WherePK ==
    /\ flags' = Set(flags, wherePKFlag)
    /\ last' = [op |-> "WherePK", out |-> "ok"]
    /\ res' = NoResult
    /\ UNCHANGED retVars
    /\ UNCHANGED <<err, model, tableModel, table, modelTable, tables, columns,
                   whereVars, indexVars>>

\* isSoftDelete that does not look at allWithDeletedFlag
isSoftDelete_ignoreFlag ==
    IF table # NoTable THEN HasSoftDelete(table) ELSE FALSE

\* baseQuery.isSoftDelete
isSoftDelete ==
    IF table # NoTable
    THEN HasSoftDelete(table) /\ ~Has(flags, allWithDeletedFlag)
    ELSE FALSE

\* ------------------------------------------------------------------------
\* baseQuery: tables and columns
\* ------------------------------------------------------------------------
ColumnIdents == {"id", "tenant", "zzz"}

\* Non-empty sequences over S of length at most n
SeqsUpTo(S, n) == UNION {[1..k -> S] : k \in 1..n}

RECURSIVE Idents(_)
Idents(names) ==
    IF names = <<>> THEN <<>>
    ELSE <<UnsafeIdent(Head(names))>> \o Idents(Tail(names))

\* CreateIndexQuery.Table -> baseQuery.addTable for each name
Table(names) ==
    /\ Len(tables) + Len(names) <= MaxTables
    /\ tables' = tables \o Idents(names)
    /\ last' = [op |-> "Table", out |-> "ok"]
    /\ res' = NoResult
    /\ UNCHANGED retVars
    /\ UNCHANGED <<err, model, tableModel, table, modelTable, columns, flags,
                   whereVars, indexVars>>

\* CreateIndexQuery.TableExpr -> baseQuery.addTable
TableExpr(query, args) ==
    /\ Len(tables) < MaxTables
    /\ tables' = Append(tables, SafeQuery(query, args))
    /\ last' = [op |-> "TableExpr", out |-> "ok"]
    /\ res' = NoResult
    /\ UNCHANGED retVars
    /\ UNCHANGED <<err, model, tableModel, table, modelTable, columns, flags,
                   whereVars, indexVars>>

\* CreateIndexQuery.ModelTableExpr
ModelTableExpr(query, args) ==
    /\ modelTable' = SafeQuery(query, args)
    /\ last' = [op |-> "ModelTableExpr", out |-> "ok"]
    /\ res' = NoResult
    /\ UNCHANGED retVars
    /\ UNCHANGED <<err, model, tableModel, table, tables, columns, flags,
                   whereVars, indexVars>>

\* CreateIndexQuery.Column -> baseQuery.addColumn for each name
Column(names) ==
    /\ Len(columns.elems) + Len(names) <= MaxColumns
    /\ columns' = Slice(columns.elems \o Idents(names))
    /\ last' = [op |-> "Column", out |-> "ok"]
    /\ res' = NoResult
    /\ UNCHANGED retVars
    /\ UNCHANGED <<err, model, tableModel, table, modelTable, tables, flags,
                   whereVars, indexVars>>

\* CreateIndexQuery.ColumnExpr -> baseQuery.addColumn
ColumnExpr(query, args) ==
    /\ Len(columns.elems) < MaxColumns
    /\ columns' = Slice(Append(columns.elems, SafeQuery(query, args)))
    /\ last' = [op |-> "ColumnExpr", out |-> "ok"]
    /\ res' = NoResult
    /\ UNCHANGED retVars
    /\ UNCHANGED <<err, model, tableModel, table, modelTable, tables, flags,
                   whereVars, indexVars>>

RECURSIVE FieldIdents(_)
FieldIdents(fields) ==
    IF fields = <<>> THEN <<>>
    ELSE <<UnsafeIdent(Head(fields).Name)>> \o FieldIdents(Tail(fields))

\* The search of _excludeColumn without the col.Args == nil test
RECURSIVE FindColumn_anyArgs(_, _, _)
FindColumn_anyArgs(cols, column, i) ==
    IF i > Len(cols) THEN 0
    ELSE IF cols[i].Query = column THEN i
    ELSE FindColumn_anyArgs(cols, column, i + 1)

\* Index of the first raw identifier equal to column, 0 if there is none
RECURSIVE FindColumn(_, _, _)
FindColumn(cols, column, i) ==
    IF i > Len(cols) THEN 0
    ELSE IF cols[i].Args.isNil /\ cols[i].Query = column THEN i
    ELSE FindColumn(cols, column, i + 1)

RemoveAt(s, i) == SubSeq(s, 1, i - 1) \o SubSeq(s, i + 1, Len(s))

\* baseQuery._excludeColumn: [found, cols]
_excludeColumn(cols, column) ==
    LET i == FindColumn(cols, column, 1) IN
    IF i > 0 THEN [found |-> TRUE, cols |-> RemoveAt(cols, i)]
    ELSE [found |-> FALSE, cols |-> cols]

ErrCantFindColumn(column) == "bun: can't find column=\"" \o column \o "\""

\* The loop of baseQuery.excludeColumn: [cols, err], err the first failure
RECURSIVE excludeLoop(_, _)
excludeLoop(cols, names) ==
    IF names = <<>> THEN [cols |-> cols, err |-> NoErr]
    ELSE LET r == _excludeColumn(cols, Head(names)) IN
         IF ~r.found
         THEN [cols |-> cols, err |-> ErrCantFindColumn(Head(names))]
         ELSE excludeLoop(r.cols, Tail(names))

\* CreateIndexQuery.ExcludeColumn -> baseQuery.excludeColumn.
\* With no column list and no table, q.table.Fields dereferences nil.
ExcludeColumn(names) ==
    IF columns.isNil /\ table = NoTable
    THEN /\ last' = [op |-> "ExcludeColumn", out |-> "panic", names |-> names,
                     before |-> columns, err |-> err]
         /\ res' = NoResult
         /\ UNCHANGED retVars
         /\ UNCHANGED <<baseVars, whereVars, indexVars>>
    ELSE LET start == IF columns.isNil
                      THEN IF Tables[table].Fields = <<>> THEN NilSlice
                           ELSE Slice(FieldIdents(Tables[table].Fields))
                      ELSE columns
             r == excludeLoop(start.elems, names)
         IN /\ columns' = [start EXCEPT !.elems = r.cols]
            /\ err' = IF r.err # NoErr THEN setErr(err, r.err) ELSE err
            /\ last' = [op |-> "ExcludeColumn", out |-> "ok", names |-> names,
                        before |-> columns, err |-> err]
            /\ res' = NoResult
            /\ UNCHANGED retVars
            /\ UNCHANGED <<model, tableModel, table, modelTable, tables, flags,
                           whereVars, indexVars>>

\* What getFields / getDataFields return: [fields, err, panic]
FieldsOk(fields) == [fields |-> fields, err |-> NoErr, panic |-> FALSE]
FieldsFail(e) == [fields |-> <<>>, err |-> e, panic |-> FALSE]
FieldsPanic == [fields |-> <<>>, err |-> NoErr, panic |-> TRUE]

\* The loop of _getFields without the col.Args != nil test
RECURSIVE getFieldsFrom_anyArgs(_, _, _)
getFieldsFrom_anyArgs(omitPK, i, fields) ==
    IF i > Len(columns.elems) THEN FieldsOk(fields)
    ELSE LET col == columns.elems[i] IN
         IF table = NoTable THEN FieldsPanic
         ELSE LET r == TableField(table, col.Query) IN
              IF r.err # NoErr THEN FieldsFail(r.err)
              ELSE IF omitPK /\ r.field.IsPK
              THEN getFieldsFrom_anyArgs(omitPK, i + 1, fields)
              ELSE getFieldsFrom_anyArgs(omitPK, i + 1, Append(fields, r.field))

\* The loop of baseQuery._getFields, from column i on.  q.table.Field
\* dereferences q.table.
RECURSIVE getFieldsFrom(_, _, _)
getFieldsFrom(omitPK, i, fields) ==
    IF i > Len(columns.elems) THEN FieldsOk(fields)
    ELSE LET col == columns.elems[i] IN
         IF ~col.Args.isNil THEN getFieldsFrom(omitPK, i + 1, fields)
         ELSE IF table = NoTable THEN FieldsPanic
         ELSE LET r == TableField(table, col.Query) IN
              IF r.err # NoErr THEN FieldsFail(r.err)
              ELSE IF omitPK /\ r.field.IsPK
              THEN getFieldsFrom(omitPK, i + 1, fields)
              ELSE getFieldsFrom(omitPK, i + 1, Append(fields, r.field))

\* baseQuery._getFields
_getFields(omitPK) == getFieldsFrom(omitPK, 1, <<>>)

\* baseQuery.getFields.  q.tableModel.Table() dereferences q.tableModel.
getFields ==
    IF tableModel = NoModel THEN FieldsPanic
    ELSE IF Len(columns.elems) = 0 THEN FieldsOk(Tables[tableModel.table].Fields)
    ELSE _getFields(FALSE)

\* baseQuery.getDataFields.  q.table.DataFields dereferences q.table.
getDataFields ==
    IF Len(columns.elems) = 0
    THEN IF table = NoTable THEN FieldsPanic ELSE FieldsOk(Tables[table].DataFields)
    ELSE _getFields(TRUE)

\* ------------------------------------------------------------------------
\* WhereQuery
\* ------------------------------------------------------------------------
SepAnd == " AND "
SepOr == " OR "
Seps == {SepAnd, SepOr}

\* WhereQuery.addWhere
addWhere(w, frag) == Append(w, frag)

\* The list a callback fn leaves in the fresh WhereQuery it is given.  fn is
\* the sequence of calls it makes: [op |-> "Where" | "WhereOr", query, args]
\* or [op |-> "WhereGroup", sep, fn].
RECURSIVE RunFn(_, _)

\* addWhereGroup without the len(q2.where) > 0 test
addWhereGroup_always(w, sep, fn) ==
    LET q2 == RunFn(<<>>, fn)
        inner == IF Len(q2) > 0 THEN [q2 EXCEPT ![1].Sep = ""] ELSE q2
        open == addWhere(w, SafeQueryWithSep("", NilArgs, sep \o "("))
    IN addWhere(open \o inner, SafeQueryWithSep("", NilArgs, ")"))

\* WhereQuery.addWhereGroup: the list after addWhereGroup(sep, fn)
addWhereGroup(w, sep, fn) ==
    LET q2 == RunFn(<<>>, fn) IN
    IF Len(q2) > 0
    THEN LET inner == [q2 EXCEPT ![1].Sep = ""]
             open == addWhere(w, SafeQueryWithSep("", NilArgs, sep \o "("))
         IN addWhere(open \o inner, SafeQueryWithSep("", NilArgs, ")"))
    ELSE w

\* One call made on a WhereQuery
WhereCall(w, c) ==
    CASE c.op = "Where" -> addWhere(w, SafeQueryWithSep(c.query, c.args, SepAnd))
      [] c.op = "WhereOr" -> addWhere(w, SafeQueryWithSep(c.query, c.args, SepOr))
      [] c.op = "WhereGroup" -> addWhereGroup(w, c.sep, c.fn)

RunFn(w, fn) ==
    IF fn = <<>> THEN w ELSE RunFn(WhereCall(w, Head(fn)), Tail(fn))

\* CreateIndexQuery.Where / WhereQuery.Where
Where(query, args) ==
    /\ Len(where) < MaxWhere
    /\ Len(calls) < MaxCalls
    /\ where' = addWhere(where, SafeQueryWithSep(query, args, SepAnd))
    /\ calls' = Append(calls, [op |-> "Where", query |-> query, args |-> args])
    /\ last' = [op |-> "Where", out |-> "ok"]
    /\ res' = NoResult
    /\ UNCHANGED retVars
    /\ UNCHANGED <<baseVars, indexVars>>

\* CreateIndexQuery.WhereOr / WhereQuery.WhereOr
WhereOr(query, args) ==
    /\ Len(where) < MaxWhere
    /\ Len(calls) < MaxCalls
    /\ where' = addWhere(where, SafeQueryWithSep(query, args, SepOr))
    /\ calls' = Append(calls, [op |-> "WhereOr", query |-> query, args |-> args])
    /\ last' = [op |-> "WhereOr", out |-> "ok"]
    /\ res' = NoResult
    /\ UNCHANGED retVars
    /\ UNCHANGED <<baseVars, indexVars>>

\* CreateIndexQuery.WhereGroup / WhereQuery.WhereGroup
WhereGroup(sep, fn) ==
    /\ Len(calls) < MaxCalls
    /\ LET w == addWhereGroup(where, sep, fn) IN
         Len(w) <= MaxWhere /\ where' = w
    /\ calls' = Append(calls, [op |-> "WhereGroup", sep |-> sep, fn |-> fn])
    /\ last' = [op |-> "WhereGroup", out |-> "ok", sep |-> sep, fn |-> fn,
                before |-> where]
    /\ res' = NoResult
    /\ UNCHANGED retVars
    /\ UNCHANGED <<baseVars, indexVars>>

\* The callbacks a caller passes to WhereGroup.
\* the calls a callback makes on the WhereQuery it is given
PredCalls ==
    {[op |-> o, query |-> "y", args |-> NilArgs] : o \in {"Where", "WhereOr"}}
\* callbacks that add predicates only
Fns0 == {<<>>} \cup SeqsUpTo(PredCalls, 2)
\* callbacks that may also open one group of their own
GroupCalls ==
    {[op |-> "WhereGroup", sep |-> s, fn |-> f] :
        s \in Seps, f \in {<<>>} \cup SeqsUpTo(PredCalls, 1)}
Fns == Fns0 \cup {<<g>> : g \in GroupCalls}
           \cup {<<g, c>> : g \in GroupCalls, c \in PredCalls}
           \cup {<<c, g>> : c \in PredCalls, g \in GroupCalls}

\* ------------------------------------------------------------------------
\* Rendering: first table
\* ------------------------------------------------------------------------
ErrNoTable == "bun: query does not have a table"

\* baseQuery.modelHasTableName
modelHasTableName == ~IsZero(modelTable) \/ table # NoTable

\* _appendFirstTable that looks at the bound table before q.modelTable
_appendFirstTable_tableFirst(fmter, b, withAlias) ==
    IF table # NoTable
    THEN LET t == Tables[table]
             b1 == AppendStr(b, FormatQuery(fmter, t.SQLName, <<>>))
         IN IF withAlias /\ t.Alias # t.SQLName
            THEN Ok(AppendStr(AppendStr(b1, " AS "), t.Alias))
            ELSE Ok(b1)
    ELSE IF ~IsZero(modelTable) THEN FragAppendQuery(fmter, b, modelTable)
    ELSE IF Len(tables) > 0 THEN FragAppendQuery(fmter, b, tables[1])
    ELSE Fail(ErrNoTable)

\* baseQuery._appendFirstTable
_appendFirstTable(fmter, b, withAlias) ==
    IF ~IsZero(modelTable) THEN FragAppendQuery(fmter, b, modelTable)
    ELSE IF table # NoTable
    THEN LET t == Tables[table]
             b1 == AppendStr(b, FormatQuery(fmter, t.SQLName, <<>>))
         IN IF withAlias /\ t.Alias # t.SQLName
            THEN Ok(AppendStr(AppendStr(b1, " AS "), t.Alias))
            ELSE Ok(b1)
    ELSE IF Len(tables) > 0 THEN FragAppendQuery(fmter, b, tables[1])
    ELSE Fail(ErrNoTable)

\* baseQuery.appendFirstTable
appendFirstTable(fmter, b) == _appendFirstTable(fmter, b, FALSE)

\* baseQuery.hasMultiTables
hasMultiTables ==
    IF modelHasTableName THEN Len(tables) >= 1 ELSE Len(tables) >= 2

\* baseQuery.appendOtherTables.  tables[1:] of an empty list is out of range.
appendOtherTables(fmter, b) ==
    IF ~modelHasTableName /\ Len(tables) = 0 THEN Panic
    ELSE LET ts == IF ~modelHasTableName THEN Tail(tables) ELSE tables
             r == appendListFrom(fmter, b, ts, 1)
         IN IF r.err # NoErr THEN Fail(r.err) ELSE Ok(r.b)

\* ------------------------------------------------------------------------
\* Rendering: WHERE
\* ------------------------------------------------------------------------
\* whereBaseQuery._appendWhere, from element i on
RECURSIVE appendWhereFrom(_, _, _, _)
appendWhereFrom(fmter, b, w, i) ==
    IF i > Len(w) THEN Ok(b)
    ELSE LET b1 == IF i > 1 THEN AppendStr(b, w[i].Sep) ELSE b IN
         IF w[i].Query = "" /\ w[i].Args.isNil
         THEN appendWhereFrom(fmter, b1, w, i + 1)
         ELSE LET r == FragAppendQuery(fmter, AppendStr(b1, "("), w[i]) IN
              IF r.err # NoErr THEN Fail(r.err)
              ELSE appendWhereFrom(fmter, AppendStr(r.b, ")"), w, i + 1)

_appendWhere(fmter, b, w) == appendWhereFrom(fmter, b, w, 1)

\* appendWhereSoftDelete with the test of deletedFlag inverted
appendWhereSoftDelete_inverted(b) ==
    LET b1 == AppendStr(AppendStr(b, "."), Tables[tableModel.table].SoftDeleteField.SQLName)
    IN IF Has(flags, deletedFlag)
       THEN AppendStr(b1, " IS NULL")
       ELSE AppendStr(b1, " IS NOT NULL")

\* whereBaseQuery.appendWhereSoftDelete
appendWhereSoftDelete(b) ==
    LET b1 == AppendStr(AppendStr(b, "."), Tables[tableModel.table].SoftDeleteField.SQLName)
    IN IF Has(flags, deletedFlag)
       THEN AppendStr(b1, " IS NOT NULL")
       ELSE AppendStr(b1, " IS NULL")

\* appendWherePKStruct joining the columns with ", "
RECURSIVE appendPKStructFrom_comma(_, _, _, _)
appendPKStructFrom_comma(fmter, b, strct, i) ==
    LET pks == Tables[table].PKs IN
    IF i > Len(pks) THEN b
    ELSE LET b1 == IF i > 1 THEN AppendStr(b, ", ") ELSE b
             b2 == AppendStr(AppendStr(AppendStr(AppendStr(b1,
                       Tables[table].Alias), "."), pks[i].SQLName), " = ")
             b3 == IF IsNopFormatter(fmter) THEN AppendStr(b2, "?")
                   ELSE AppendValue(b2, pks[i], strct)
         IN appendPKStructFrom_comma(fmter, b3, strct, i + 1)

\* whereBaseQuery.appendWherePKStruct, from PK field i on
RECURSIVE appendPKStructFrom(_, _, _, _)
appendPKStructFrom(fmter, b, strct, i) ==
    LET pks == Tables[table].PKs IN
    IF i > Len(pks) THEN b
    ELSE LET b1 == IF i > 1 THEN AppendStr(b, " AND ") ELSE b
             b2 == AppendStr(AppendStr(AppendStr(AppendStr(b1,
                       Tables[table].Alias), "."), pks[i].SQLName), " = ")
             b3 == IF IsNopFormatter(fmter) THEN AppendStr(b2, "?")
                   ELSE AppendValue(b2, pks[i], strct)
         IN appendPKStructFrom(fmter, b3, strct, i + 1)

appendWherePKStruct(fmter, b, m) ==
    Ok(AppendStr(appendPKStructFrom(fmter, AppendStr(b, "("), m.strct, 1), ")"))

\* appendColumns(b, table, fields), from field i on
RECURSIVE appendColumnsFrom(_, _, _, _)
appendColumnsFrom(b, alias, fields, i) ==
    IF i > Len(fields) THEN b
    ELSE LET b1 == IF i > 1 THEN AppendStr(b, ", ") ELSE b
             b2 == IF Len(alias) > 0 THEN AppendStr(AppendStr(b1, alias), ".") ELSE b1
         IN appendColumnsFrom(AppendStr(b2, fields[i].SQLName), alias, fields, i + 1)

appendColumns(b, alias, fields) == appendColumnsFrom(b, alias, fields, 1)

\* The inner loop of appendWherePKSlice: the PK values of one element
RECURSIVE appendPKRowFrom(_, _, _, _)
appendPKRowFrom(fmter, b, el, i) ==
    LET pks == Tables[table].PKs IN
    IF i > Len(pks) THEN b
    ELSE LET b1 == IF i > 1 THEN AppendStr(b, ", ") ELSE b
             b2 == IF IsNopFormatter(fmter) THEN AppendStr(b1, "?")
                   ELSE AppendValue(b1, pks[i], el)
         IN appendPKRowFrom(fmter, b2, el, i + 1)

\* The outer loop of appendWherePKSlice without the break after the first
\* element in template mode
RECURSIVE appendPKSliceFrom_noBreak(_, _, _, _)
appendPKSliceFrom_noBreak(fmter, b, slice, i) ==
    LET pks == Tables[table].PKs IN
    IF i > Len(slice) THEN b
    ELSE LET b1 == IF i > 1 THEN AppendStr(b, ", ") ELSE b
             b2 == IF Len(pks) > 1 THEN AppendStr(b1, "(") ELSE b1
             b3 == appendPKRowFrom(fmter, b2, slice[i], 1)
             b4 == IF Len(pks) > 1 THEN AppendStr(b3, ")") ELSE b3
         IN appendPKSliceFrom_noBreak(fmter, b4, slice, i + 1)

\* The outer loop of appendWherePKSlice, from element i on
RECURSIVE appendPKSliceFrom(_, _, _, _)
appendPKSliceFrom(fmter, b, slice, i) ==
    LET pks == Tables[table].PKs IN
    IF i > Len(slice) THEN b
    ELSE IF i > 1 /\ IsNopFormatter(fmter) THEN b
    ELSE LET b1 == IF i > 1 THEN AppendStr(b, ", ") ELSE b
             b2 == IF Len(pks) > 1 THEN AppendStr(b1, "(") ELSE b1
             b3 == appendPKRowFrom(fmter, b2, slice[i], 1)
             b4 == IF Len(pks) > 1 THEN AppendStr(b3, ")") ELSE b3
         IN appendPKSliceFrom(fmter, b4, slice, i + 1)

\* whereBaseQuery.appendWherePKSlice
appendWherePKSlice(fmter, b, m) ==
    LET pks == Tables[table].PKs
        b1 == IF Len(pks) > 1 THEN AppendStr(b, "(") ELSE b
        b2 == appendColumns(b1, Tables[table].Alias, pks)
        b3 == IF Len(pks) > 1 THEN AppendStr(b2, ")") ELSE b2
        b4 == AppendStr(b3, " IN (")
    IN Ok(AppendStr(appendPKSliceFrom(fmter, b4, m.slice, 1), ")"))

ErrWherePKKind(kind) == "bun: WherePK does not support " \o kind

\* whereBaseQuery.appendWherePK.  q.table.CheckPKs() dereferences q.table.
appendWherePK(fmter, b) ==
    IF table = NoTable THEN Panic
    ELSE IF CheckPKs(table) # NoErr THEN Fail(CheckPKs(table))
    ELSE IF tableModel.kind = "struct" THEN appendWherePKStruct(fmter, b, tableModel)
    ELSE IF tableModel.kind = "slice" THEN appendWherePKSlice(fmter, b, tableModel)
    ELSE Fail(ErrWherePKKind(tableModel.kind))

\* whereBaseQuery.appendWhere
appendWhere(fmter, b) ==
    IF Len(where) = 0 /\ ~isSoftDelete /\ ~Has(flags, wherePKFlag) THEN Ok(b)
    ELSE
    LET b0 == AppendStr(b, " WHERE ")
        startLen == BLen(b0)
        r1 == IF Len(where) > 0 THEN _appendWhere(fmter, b0, where) ELSE Ok(b0)
    IN IF r1.err # NoErr THEN Fail(r1.err)
       ELSE
       LET b2 == IF isSoftDelete
                 THEN LET bs == IF BLen(r1.b) > startLen
                                THEN AppendStr(r1.b, " AND ") ELSE r1.b
                      IN appendWhereSoftDelete(
                             AppendStr(bs, Tables[tableModel.table].Alias))
                 ELSE r1.b
       IN IF Has(flags, wherePKFlag)
          THEN LET bp == IF BLen(b2) > startLen THEN AppendStr(b2, " AND ") ELSE b2
                   r3 == appendWherePK(fmter, bp)
               IN IF r3.panic THEN Panic
                  ELSE IF r3.err # NoErr THEN Fail(r3.err)
                  ELSE Ok(r3.b)
          ELSE Ok(b2)

ErrRequireWhere == "bun: Update and Delete queries require Where clause (try WherePK)"

\* mustAppendWhere that does not look at wherePKFlag
mustAppendWhere_noPKFlag(fmter, b) ==
    IF Len(where) = 0
    THEN Fail(ErrRequireWhere)
    ELSE appendWhere(fmter, b)

\* whereBaseQuery.mustAppendWhere
mustAppendWhere(fmter, b) ==
    IF Len(where) = 0 /\ ~Has(flags, wherePKFlag)
    THEN Fail(ErrRequireWhere)
    ELSE appendWhere(fmter, b)

\* ------------------------------------------------------------------------
\* returningQuery
\* ------------------------------------------------------------------------
\* returningQuery.addReturning
addReturning(query, args) ==
    /\ Len(returning) < MaxReturning
    /\ returning' = Append(returning, SafeQuery(query, args))
    /\ last' = [op |-> "addReturning", out |-> "ok", before |-> returning,
                fields |-> returningFields]
    /\ res' = NoResult
    /\ UNCHANGED <<baseVars, whereVars, indexVars, returningFields>>

\* addReturningField without the len(q.returning) > 0 test
addReturningField_noExprTest(field) ==
    /\ IF \E i \in 1..Len(returningFields) : returningFields[i] = field
       THEN UNCHANGED returningFields
       ELSE /\ Len(returningFields) < MaxReturningFields
            /\ returningFields' = Append(returningFields, field)
    /\ last' = [op |-> "addReturningField", out |-> "ok", before |-> returning,
                fields |-> returningFields]
    /\ res' = NoResult
    /\ UNCHANGED <<baseVars, whereVars, indexVars, returning>>

\* returningQuery.addReturningField
addReturningField(field) ==
    /\ IF Len(returning) > 0 THEN UNCHANGED returningFields
       ELSE IF \E i \in 1..Len(returningFields) : returningFields[i] = field
       THEN UNCHANGED returningFields
       ELSE /\ Len(returningFields) < MaxReturningFields
            /\ returningFields' = Append(returningFields, field)
    /\ last' = [op |-> "addReturningField", out |-> "ok", before |-> returning,
                fields |-> returningFields]
    /\ res' = NoResult
    /\ UNCHANGED <<baseVars, whereVars, indexVars, returning>>

\* hasReturning without the test for a single "null" fragment
hasReturning_noOptOut == Len(returning) > 0 \/ Len(returningFields) > 0

\* returningQuery.hasReturning
hasReturning ==
    IF Len(returning) = 1 /\ returning[1].Query \in {"null", "NULL"}
    THEN FALSE
    ELSE Len(returning) > 0 \/ Len(returningFields) > 0

\* returningQuery.appendReturning
appendReturning(fmter, b) ==
    IF ~hasReturning THEN Ok(b)
    ELSE LET r == appendListFrom(fmter, AppendStr(b, " RETURNING "), returning, 1) IN
         IF r.err # NoErr THEN Fail(r.err)
         ELSE IF Len(returning) > 0 THEN Ok(r.b)
         ELSE Ok(appendColumns(r.b, "", returningFields))

\* ------------------------------------------------------------------------
\* CreateIndexQuery
\* ------------------------------------------------------------------------
\* CreateIndexQuery.Unique
Unique ==
    /\ unique' = TRUE
    /\ last' = [op |-> "Unique", out |-> "ok"]
    /\ res' = NoResult
    /\ UNCHANGED retVars
    /\ UNCHANGED <<baseVars, whereVars, concurrently, ifNotExists, index, using,
                   include>>

\* CreateIndexQuery.Concurrently
Concurrently ==
    /\ concurrently' = TRUE
    /\ last' = [op |-> "Concurrently", out |-> "ok"]
    /\ res' = NoResult
    /\ UNCHANGED retVars
    /\ UNCHANGED <<baseVars, whereVars, unique, ifNotExists, index, using,
                   include>>

\* CreateIndexQuery.IfNotExists
IfNotExists ==
    /\ ifNotExists' = TRUE
    /\ last' = [op |-> "IfNotExists", out |-> "ok"]
    /\ res' = NoResult
    /\ UNCHANGED retVars
    /\ UNCHANGED <<baseVars, whereVars, unique, concurrently, index, using,
                   include>>

\* CreateIndexQuery.Index
Index(query, args) ==
    /\ index' = SafeQuery(query, args)
    /\ last' = [op |-> "Index", out |-> "ok"]
    /\ res' = NoResult
    /\ UNCHANGED retVars
    /\ UNCHANGED <<baseVars, whereVars, unique, concurrently, ifNotExists, using,
                   include>>

\* CreateIndexQuery.Using
Using(query, args) ==
    /\ using' = SafeQuery(query, args)
    /\ last' = [op |-> "Using", out |-> "ok"]
    /\ res' = NoResult
    /\ UNCHANGED retVars
    /\ UNCHANGED <<baseVars, whereVars, unique, concurrently, ifNotExists, index,
                   include>>

\* CreateIndexQuery.Include
Include(names) ==
    /\ Len(include) + Len(names) <= MaxInclude
    /\ include' = include \o Idents(names)
    /\ last' = [op |-> "Include", out |-> "ok"]
    /\ res' = NoResult
    /\ UNCHANGED retVars
    /\ UNCHANGED <<baseVars, whereVars, unique, concurrently, ifNotExists, index,
                   using>>

\* CreateIndexQuery.IncludeExpr
IncludeExpr(query, args) ==
    /\ Len(include) < MaxInclude
    /\ include' = Append(include, SafeQuery(query, args))
    /\ last' = [op |-> "IncludeExpr", out |-> "ok"]
    /\ res' = NoResult
    /\ UNCHANGED retVars
    /\ UNCHANGED <<baseVars, whereVars, unique, concurrently, ifNotExists, index,
                   using>>

\* AppendQuery returning what it has built when a column fails to render
appendQueryTail_partial(fmter, b) ==
    LET r1 == appendFirstTable(fmter, AppendStr(b, " ON ")) IN
    IF r1.err # NoErr THEN Fail(r1.err)
    ELSE
    LET r2 == IF ~IsZero(using)
              THEN FragAppendQuery(fmter, AppendStr(r1.b, " USING "), using)
              ELSE Ok(r1.b)
    IN IF r2.err # NoErr THEN Fail(r2.err)
    ELSE
    LET r3 == appendListFrom(fmter, AppendStr(r2.b, " ("), columns.elems, 1) IN
    IF r3.err # NoErr THEN [b |-> r2.b, err |-> r3.err, panic |-> FALSE]
    ELSE
    LET b3 == AppendStr(r3.b, ")")
        r4 == IF Len(include) > 0
              THEN appendListFrom(fmter, AppendStr(b3, " INCLUDE ("), include, 1)
              ELSE Ok(b3)
    IN IF r4.err # NoErr THEN Fail(r4.err)
    ELSE
    LET b4 == IF Len(include) > 0 THEN AppendStr(r4.b, ")") ELSE r4.b
        r5 == appendWhere(fmter, b4)
    IN IF r5.panic THEN Panic
       ELSE IF r5.err # NoErr THEN Fail(r5.err)
       ELSE Ok(r5.b)

\* CreateIndexQuery.AppendQuery, from " ON " to the end
appendQueryTail(fmter, b) ==
    LET r1 == appendFirstTable(fmter, AppendStr(b, " ON ")) IN
    IF r1.err # NoErr THEN Fail(r1.err)
    ELSE
    LET r2 == IF ~IsZero(using)
              THEN FragAppendQuery(fmter, AppendStr(r1.b, " USING "), using)
              ELSE Ok(r1.b)
    IN IF r2.err # NoErr THEN Fail(r2.err)
    ELSE
    LET r3 == appendListFrom(fmter, AppendStr(r2.b, " ("), columns.elems, 1) IN
    IF r3.err # NoErr THEN Fail(r3.err)
    ELSE
    LET b3 == AppendStr(r3.b, ")")
        r4 == IF Len(include) > 0
              THEN appendListFrom(fmter, AppendStr(b3, " INCLUDE ("), include, 1)
              ELSE Ok(b3)
    IN IF r4.err # NoErr THEN Fail(r4.err)
    ELSE
    LET b4 == IF Len(include) > 0 THEN AppendStr(r4.b, ")") ELSE r4.b
        r5 == appendWhere(fmter, b4)
    IN IF r5.panic THEN Panic
       ELSE IF r5.err # NoErr THEN Fail(r5.err)
       ELSE Ok(r5.b)

\* AppendQuery writing IF NOT EXISTS before CONCURRENTLY
AppendQuery_swapped(fmter, b) ==
    IF err # NoErr THEN Fail(err)
    ELSE
    LET b1 == AppendStr(b, "CREATE ")
        b2 == IF unique THEN AppendStr(b1, "UNIQUE ") ELSE b1
        b3 == IF fulltext THEN AppendStr(b2, "FULLTEXT ") ELSE b2
        b4 == IF spatial THEN AppendStr(b3, "SPATIAL ") ELSE b3
        b5 == AppendStr(b4, "INDEX ")
        b6 == IF ifNotExists THEN AppendStr(b5, "IF NOT EXISTS ") ELSE b5
        b7 == IF concurrently THEN AppendStr(b6, "CONCURRENTLY ") ELSE b6
        r == FragAppendQuery(fmter, b7, index)
    IN IF r.err # NoErr THEN Fail(r.err)
       ELSE appendQueryTail(fmter, r.b)

\* CreateIndexQuery.AppendQuery
AppendQuery(fmter, b) ==
    IF err # NoErr THEN Fail(err)
    ELSE
    LET b1 == AppendStr(b, "CREATE ")
        b2 == IF unique THEN AppendStr(b1, "UNIQUE ") ELSE b1
        b3 == IF fulltext THEN AppendStr(b2, "FULLTEXT ") ELSE b2
        b4 == IF spatial THEN AppendStr(b3, "SPATIAL ") ELSE b3
        b5 == AppendStr(b4, "INDEX ")
        b6 == IF concurrently THEN AppendStr(b5, "CONCURRENTLY ") ELSE b5
        b7 == IF ifNotExists THEN AppendStr(b6, "IF NOT EXISTS ") ELSE b6
        r == FragAppendQuery(fmter, b7, index)
    IN IF r.err # NoErr THEN Fail(r.err)
       ELSE appendQueryTail(fmter, r.b)

\* ------------------------------------------------------------------------
\* Render calls
\* ------------------------------------------------------------------------
\* The buffers a caller hands to a render call: nil, or one holding a prefix
CallerBufs == {NilBuf, Buf(<<"/*q*/ ">>)}

Outcome(r) == IF r.panic THEN "panic" ELSE "ok"

\* A call of AppendQuery that records a render failure with setErr
RenderQuery_storeErr(fmter, b) ==
    LET r == AppendQuery(fmter, b) IN
    /\ res' = r
    /\ UNCHANGED retVars
    /\ last' = [op |-> "AppendQuery", out |-> Outcome(r), fmter |-> fmter, b |-> b]
    /\ err' = IF r.err # NoErr THEN setErr(err, r.err) ELSE err
    /\ UNCHANGED <<model, tableModel, table, modelTable, tables, columns, flags,
                   whereVars, indexVars>>

\* A call of CreateIndexQuery.AppendQuery
RenderQuery(fmter, b) ==
    LET r == AppendQuery(fmter, b) IN
    /\ res' = r
    /\ UNCHANGED retVars
    /\ last' = [op |-> "AppendQuery", out |-> Outcome(r), fmter |-> fmter, b |-> b]
    /\ UNCHANGED <<baseVars, whereVars, indexVars>>

\* A call of whereBaseQuery.mustAppendWhere
RenderMustWhere(fmter, b) ==
    LET r == mustAppendWhere(fmter, b) IN
    /\ res' = r
    /\ UNCHANGED retVars
    /\ last' = [op |-> "mustAppendWhere", out |-> Outcome(r), fmter |-> fmter, b |-> b]
    /\ UNCHANGED <<baseVars, whereVars, indexVars>>

\* A call of whereBaseQuery.appendWhere
RenderWhere(fmter, b) ==
    LET r == appendWhere(fmter, b) IN
    /\ res' = r
    /\ UNCHANGED retVars
    /\ last' = [op |-> "appendWhere", out |-> Outcome(r), fmter |-> fmter, b |-> b]
    /\ UNCHANGED <<baseVars, whereVars, indexVars>>

\* A call of whereBaseQuery.appendWherePK
RenderWherePK(fmter, b) ==
    LET r == appendWherePK(fmter, b) IN
    /\ res' = r
    /\ UNCHANGED retVars
    /\ last' = [op |-> "appendWherePK", out |-> Outcome(r), fmter |-> fmter, b |-> b]
    /\ UNCHANGED <<baseVars, whereVars, indexVars>>

\* A call of baseQuery.appendFirstTable / appendFirstTableWithAlias
RenderFirstTable(fmter, b, withAlias) ==
    LET r == _appendFirstTable(fmter, b, withAlias) IN
    /\ res' = r
    /\ UNCHANGED retVars
    /\ last' = [op |-> "appendFirstTable", out |-> Outcome(r), fmter |-> fmter,
                b |-> b, withAlias |-> withAlias]
    /\ UNCHANGED <<baseVars, whereVars, indexVars>>

\* A call of baseQuery.appendOtherTables
RenderOtherTables(fmter, b) ==
    LET r == appendOtherTables(fmter, b) IN
    /\ res' = r
    /\ UNCHANGED retVars
    /\ last' = [op |-> "appendOtherTables", out |-> Outcome(r), fmter |-> fmter,
                b |-> b]
    /\ UNCHANGED <<baseVars, whereVars, indexVars>>

\* A call of baseQuery.getFields
GetFields ==
    LET r == getFields IN
    /\ res' = r
    /\ UNCHANGED retVars
    /\ last' = [op |-> "getFields", out |-> Outcome(r)]
    /\ UNCHANGED <<baseVars, whereVars, indexVars>>

\* A call of baseQuery.getDataFields
GetDataFields ==
    LET r == getDataFields IN
    /\ res' = r
    /\ UNCHANGED retVars
    /\ last' = [op |-> "getDataFields", out |-> Outcome(r)]
    /\ UNCHANGED <<baseVars, whereVars, indexVars>>

\* A call of returningQuery.appendReturning
RenderReturning(fmter, b) ==
    LET r == appendReturning(fmter, b) IN
    /\ res' = r
    /\ UNCHANGED retVars
    /\ last' = [op |-> "appendReturning", out |-> Outcome(r), fmter |-> fmter, b |-> b]
    /\ UNCHANGED <<baseVars, whereVars, indexVars>>

\* ------------------------------------------------------------------------
\* Specifications
\* ------------------------------------------------------------------------
\* A CREATE INDEX statement built through its public methods and rendered.
\* Every list holds at most MaxIndexList entries.
Next ==
    \/ \E m \in {[kind |-> "bad"], StructModel("users", Row_users)} : Model(m)
    \/ \E q \in {"idx", BadQuery} : Index(q, ArgsOf(<<>>))
    \/ \E q \in {BadQuery} : Using(q, ArgsOf(<<>>))
    \/ \E q \in {BadQuery} : ModelTableExpr(q, ArgsOf(<<>>))
    \/ \E n \in {"a"} : Len(tables) < MaxIndexList /\ Table(<<n>>)
    \/ \E n \in {"id"} : Len(columns.elems) < MaxIndexList /\ Column(<<n>>)
    \/ \E q \in {BadQuery} :
          Len(columns.elems) < MaxIndexList /\ ColumnExpr(q, ArgsOf(<<>>))
    \/ \E q \in {BadQuery} : IncludeExpr(q, ArgsOf(<<>>))
    \/ \E q \in {BadQuery} : Len(where) < MaxIndexList /\ Where(q, ArgsOf(<<>>))
    \/ Unique
    \/ \E f \in Formatters, b \in CallerBufs : RenderQuery(f, b)

Spec == Init /\ [][Next]_vars

\* The calls that can record the sticky error, on every kind of bound model,
\* and the render that reports it.
NextBase ==
    \/ \E m \in ModelInputs : Model(m)
    \/ whereDeleted
    \/ whereAllWithDeleted
    \/ WherePK
    \/ \E n \in {"id", "zzz"} : ExcludeColumn(<<n>>)
    \/ \E f \in Formatters, b \in CallerBufs : RenderQuery(f, b)

SpecBase == Init /\ [][NextBase]_vars

\* Column lists: Column, ColumnExpr and ExcludeColumn, with and without a
\* bound table.
NextColumns ==
    \/ \E m \in {StructModel("orders", Row_orders), StructModel("users", Row_users)} :
          Model(m)
    \/ \E ns \in SeqsUpTo({"id", "tenant"}, 2) : Column(ns)
    \/ \E q \in {"id"} : ColumnExpr(q, ArgsOf(<<>>))
    \/ \E ns \in SeqsUpTo(ColumnIdents, MaxExclude) : ExcludeColumn(ns)

SpecColumns == Init /\ [][NextColumns]_vars

\* Predicate lists: Where, WhereOr and WhereGroup with callbacks that add
\* predicates and groups of their own, rendered with no table bound.
NextWhere ==
    \/ \E q \in {"x"} : Where(q, NilArgs)
    \/ \E q \in {"a = ?"} : WhereOr(q, ArgsOf(<<"1">>))
    \/ \E sep \in Seps, fn \in Fns : WhereGroup(sep, fn)
    \/ \E f \in Formatters, b \in CallerBufs : RenderWhere(f, b)

SpecWhere == Init /\ [][NextWhere]_vars

\* WHERE rendering for a write statement: model binding, the three flags,
\* up to MaxPKWhere predicates, and the WHERE renderers.
NextPK ==
    \/ \E m \in ModelInputs : Model(m)
    \/ WherePK
    \/ whereDeleted
    \/ whereAllWithDeleted
    \/ \E q \in {"x"} : Len(where) < MaxPKWhere /\ Where(q, NilArgs)
    \/ \E f \in Formatters, b \in CallerBufs : RenderMustWhere(f, b)
    \/ \E f \in Formatters, b \in CallerBufs : RenderWhere(f, b)
    \/ \E f \in Formatters, b \in CallerBufs : RenderWherePK(f, b)

SpecPK == Init /\ [][NextPK]_vars

\* WHERE rendering for a statement bound to a slice of 0..MaxSlice elements
NextSlice ==
    \/ \E m \in SliceInputs : Model(m)
    \/ WherePK
    \/ whereDeleted
    \/ \E q \in {"x"} : Len(where) < MaxPKWhere /\ Where(q, NilArgs)
    \/ \E f \in Formatters, b \in CallerBufs : RenderWhere(f, b)
    \/ \E f \in Formatters, b \in CallerBufs : RenderWherePK(f, b)

SpecSlice == Init /\ [][NextSlice]_vars

\* The three sources of a WHERE clause together: predicates with a text and
\* with an empty text, the soft-delete flags and the restrict-to-PK flag, on
\* tables with and without a soft-delete field.
NextClauses ==
    \/ \E m \in {StructModel("users", Row_users), StructModel("orders", Row_orders),
                  SliceModel("users", UserRows(2))} : Model(m)
    \/ WherePK
    \/ whereDeleted
    \/ whereAllWithDeleted
    \/ \E q \in {"x", ""} : Where(q, NilArgs)
    \/ \E f \in Formatters, b \in CallerBufs : RenderWhere(f, b)

SpecClauses == Init /\ [][NextClauses]_vars

\* Table references: a bound table whose alias differs from its name or
\* equals it, a model without a table, the model-table expression set and
\* reset, up to MaxTables table-ref entries, and the two table renderers.
NextTables ==
    \/ \E m \in {StructModel("orders", Row_orders), StructModel("logs", Row_logs),
                  [kind |-> "map"]} : Model(m)
    \/ \E q \in {"mt", ""} : ModelTableExpr(q, NilArgs)
    \/ \E ns \in SeqsUpTo({"a", "b"}, 2) : Table(ns)
    \/ \E q \in {"x AS y"} : TableExpr(q, ArgsOf(<<>>))
    \/ \E f \in Formatters, b \in CallerBufs, wa \in BOOLEAN : RenderFirstTable(f, b, wa)
    \/ \E f \in Formatters, b \in CallerBufs : RenderOtherTables(f, b)

SpecTables == Init /\ [][NextTables]_vars

\* Field resolution: column lists of names that resolve and do not resolve
\* and of expressions with arguments, with and without a bound table.
NextFields ==
    \/ \E m \in {StructModel("orders", Row_orders), [kind |-> "map"]} : Model(m)
    \/ \E n \in {"id", "note", "zzz"} : Column(<<n>>)
    \/ \E q \in {"id"} : ColumnExpr(q, ArgsOf(<<>>))
    \/ GetFields
    \/ GetDataFields

SpecFields == Init /\ [][NextFields]_vars

\* The entries of the four lists of a CREATE INDEX statement
IndexEntries == Len(tables) + Len(columns.elems) + Len(include) + Len(where)

\* A CREATE INDEX statement built with values that render: every switch and
\* fragment setter, and up to MaxIndexEntries entries added to the table,
\* column, include and predicate lists in any order.
NextIndex ==
    \/ \E m \in {StructModel("users", Row_users)} : Model(m)
    \/ Unique
    \/ Concurrently
    \/ IfNotExists
    \/ \E q \in {"idx"} : Index(q, NilArgs)
    \/ \E q \in {"gin"} : Using(q, NilArgs)
    \/ \E q \in {"mt"} : ModelTableExpr(q, NilArgs)
    \/ \E n \in {"a", "b"} : IndexEntries < MaxIndexEntries /\ Table(<<n>>)
    \/ \E n \in {"c1", "c2"} : IndexEntries < MaxIndexEntries /\ Column(<<n>>)
    \/ \E n \in {"i1", "i2"} : IndexEntries < MaxIndexEntries /\ Include(<<n>>)
    \/ \E q \in {"x", "y"} : IndexEntries < MaxIndexEntries /\ Where(q, NilArgs)
    \/ \E n \in {"id"} : ExcludeColumn(<<n>>)
    \/ \E f \in Formatters : RenderQuery(f, NilBuf)

SpecIndex == Init /\ [][NextIndex]_vars

\* Every kind of builder call and render step, on a fresh query and on one
\* with a bound table: the calls that read q.table, q.tableModel or slice
\* the table list are made in states where those are absent or empty too.
NextTotal ==
    \/ \E m \in {StructModel("users", Row_users), [kind |-> "map"]} : Model(m)
    \/ \E n \in {"id"} : Len(columns.elems) < MaxIndexList /\ Column(<<n>>)
    \/ \E n \in {"id"} : ExcludeColumn(<<n>>)
    \/ \E n \in {"a"} : Len(tables) < MaxIndexList /\ Table(<<n>>)
    \/ WherePK
    \/ \E q \in {"x"} : Len(where) < MaxPKWhere /\ Where(q, NilArgs)
    \/ \E f \in Formatters : RenderFirstTable(f, NilBuf, FALSE)
    \/ \E f \in Formatters : RenderOtherTables(f, NilBuf)
    \/ \E f \in Formatters : RenderWhere(f, NilBuf)
    \/ \E f \in Formatters : RenderMustWhere(f, NilBuf)
    \/ \E f \in Formatters : RenderQuery(f, NilBuf)
    \/ GetFields
    \/ GetDataFields

SpecTotal == Init /\ [][NextTotal]_vars

\* Exclusions on a bound table: ExcludeColumn is the only call that changes
\* the column list, followed by the two field getters.
NextExclude ==
    \/ \E m \in {StructModel("orders", Row_orders)} : Model(m)
    \/ \E ns \in SeqsUpTo({"id", "tenant", "note"}, MaxExclude) : ExcludeColumn(ns)
    \/ GetFields
    \/ GetDataFields

SpecExclude == Init /\ [][NextExclude]_vars

\* The texts a caller passes as a returning expression
ReturningTexts == {"null", "NULL", "Null", "nUlL", "id", BadQuery}

\* RETURNING: expressions and fields added in any order, then rendered
NextReturning ==
    \/ \E q \in ReturningTexts : addReturning(q, NilArgs)
    \/ \E f \in {F_id, F_name, F_deleted} : addReturningField(f)
    \/ \E f \in Formatters, b \in CallerBufs : RenderReturning(f, b)

SpecReturning == Init /\ [][NextReturning]_vars

\* ------------------------------------------------------------------------
\* Properties
\* ------------------------------------------------------------------------
NoTableResolvable == IsZero(modelTable) /\ table = NoTable /\ tables = <<>>

\* C1: once an error has been recorded no later builder call changes it,
\* and AppendQuery returns exactly that first recorded error.
C1_StickyFirstError ==
    /\ [][err # NoErr => err' = err]_vars
    /\ [](last.op = "AppendQuery" /\ err # NoErr => res.err = err)

\* C1 witness: a soft-delete call failed with an error other than the one
\* already stored.
C1_Witness ==
    /\ err # NoErr
    /\ last.op \in {"whereDeleted", "whereAllWithDeleted"}
    /\ last.e \notin {NoErr, err}

\* C2: whenever AppendQuery fails the returned buffer is nil and only the
\* error comes back; it fails when the sticky error is set (returning it
\* before any token) and when no table can be resolved.
C2_NoPartialSQL ==
    last.op = "AppendQuery" =>
        /\ res.err # NoErr => res.b = NilBuf
        /\ err # NoErr => res = Fail(err)
        /\ err = NoErr /\ index.Query # BadQuery /\ NoTableResolvable
               => res = Fail("bun: query does not have a table")

\* C2 witness: a render that failed in the column list, after the keywords,
\* the index name and the table had been appended to a caller's prefix.
C2_Witness ==
    /\ last.op = "AppendQuery"
    /\ last.b # NilBuf
    /\ err = NoErr
    /\ res.err # NoErr
    /\ index.Query = "idx"
    /\ ~NoTableResolvable
    /\ modelTable.Query # BadQuery
    /\ using.Query # BadQuery
    /\ Len(columns.elems) > 0
    /\ columns.elems[1].Query = BadQuery

\* C3: the OnlyDeleted and IncludeAllWithDeleted flags are never both set;
\* a successful whereDeleted leaves OnlyDeleted set and IncludeAllWithDeleted
\* clear, a successful whereAllWithDeleted the reverse.
C3_FlagsExclusive ==
    /\ ~(Has(flags, deletedFlag) /\ Has(flags, allWithDeletedFlag))
    /\ last.op = "whereDeleted" /\ table # NoTable /\ HasSoftDelete(table)
           => Has(flags, deletedFlag) /\ ~Has(flags, allWithDeletedFlag)
    /\ last.op = "whereAllWithDeleted" /\ table # NoTable /\ HasSoftDelete(table)
           => Has(flags, allWithDeletedFlag) /\ ~Has(flags, deletedFlag)

\* C3 witness: whereAllWithDeleted succeeded on a query whose OnlyDeleted
\* flag was set.
C3_Witness ==
    /\ last.op = "whereAllWithDeleted"
    /\ Has(last.flags, deletedFlag)
    /\ Has(flags, allWithDeletedFlag)

\* C4: whereDeleted / whereAllWithDeleted with no table bound, or with a
\* table that has no soft-delete field, leaves the flags as they were and
\* records an error unless one is already stored.
C4_SoftDeleteFailure ==
    last.op \in {"whereDeleted", "whereAllWithDeleted"}
    /\ (table = NoTable \/ ~HasSoftDelete(table))
        => /\ flags = last.flags
           /\ last.err # NoErr => err = last.err
           /\ last.err = NoErr /\ table = NoTable
                  => err = "bun: can't use soft deletes without a table"
           /\ last.err = NoErr /\ table # NoTable
                  => err = table \o " does not have a soft delete field"

\* C4 witness: whereDeleted failed on a table without a soft-delete field
\* while flags were set, and recorded the first error.
C4_Witness ==
    /\ last.op = "whereDeleted"
    /\ table # NoTable /\ ~HasSoftDelete(table)
    /\ Has(flags, allWithDeletedFlag) /\ Has(flags, wherePKFlag)
    /\ last.err = NoErr /\ err # NoErr

\* The column list excludeColumn works on: the list as it was, or the
\* table's fields as raw identifiers when no list was set.
C5_Start ==
    IF last.before.isNil
    THEN [i \in 1..Len(Tables[table].Fields) |->
              [Query |-> Tables[table].Fields[i].Name, Args |-> NilArgs]]
    ELSE last.before.elems

C5_Hits ==
    {i \in 1..Len(C5_Start) :
        C5_Start[i].Args.isNil /\ C5_Start[i].Query = last.names[1]}

\* C5: excludeColumn(name) on a bound table works on the materialized list
\* when none was set; it removes the first raw identifier equal to name and
\* keeps the order of the rest, or records "can't find column" if there is
\* none.
C5_ExcludeColumn ==
    last.op = "ExcludeColumn" /\ table # NoTable /\ Len(last.names) = 1 =>
        /\ last.out = "ok"
        /\ IF C5_Hits # {}
           THEN LET i == CHOOSE h \in C5_Hits : \A g \in C5_Hits : h <= g IN
                /\ Len(columns.elems) = Len(C5_Start) - 1
                /\ \A j \in 1..Len(columns.elems) :
                       columns.elems[j] = IF j < i THEN C5_Start[j] ELSE C5_Start[j + 1]
                /\ err = last.err
           ELSE /\ columns.elems = C5_Start
                /\ err = IF last.err # NoErr THEN last.err
                         ELSE "bun: can't find column=\"" \o last.names[1] \o "\""

\* C5 witness: with no column list set, excludeColumn("tenant") on the
\* orders table left the list id, note.
C5_Witness ==
    /\ last.op = "ExcludeColumn" /\ table = "orders"
    /\ last.before.isNil
    /\ last.names = <<"tenant">>
    /\ columns.elems = <<UnsafeIdent("id"), UnsafeIdent("note")>>

\* A callback that adds no predicate: it makes no call, or only opens
\* groups whose callbacks add none.
RECURSIVE NoPreds(_)
NoPreds(fn) ==
    \A k \in 1..Len(fn) : fn[k].op = "WhereGroup" /\ NoPreds(fn[k].fn)

\* C6: WhereGroup(sep, fn) with an fn that adds no predicate leaves the
\* WHERE list as it was.
C6_EmptyGroup ==
    last.op = "WhereGroup" /\ NoPreds(last.fn) => where = last.before

\* C6 witness: a group whose callback only opened an empty group of its own
\* was added with " OR " to a list that held predicates.
C6_Witness ==
    /\ last.op = "WhereGroup"
    /\ last.sep = SepOr
    /\ last.fn # <<>> /\ NoPreds(last.fn)
    /\ Len(last.before) > 0

\* The text one predicate renders to
PredText(fmter, c) ==
    Text(FragAppendQuery(fmter, NilBuf, SafeQuery(c.query, c.args)).b)

CallSep(c) ==
    CASE c.op = "Where" -> SepAnd
      [] c.op = "WhereOr" -> SepOr
      [] c.op = "WhereGroup" -> c.sep

\* The text a sequence of calls is to render to: each predicate in
\* parentheses, each non-empty group as "(" inner ")", every element but the
\* first preceded by its separator.  lead is the separator to put before
\* the first element if it is a group ("" to suppress it).
RECURSIVE ExpectedFrom(_, _, _, _)
ExpectedFrom(fmter, cs, first, keepFirstGroupSep) ==
    IF cs = <<>> THEN ""
    ELSE LET c == Head(cs)
             empty == c.op = "WhereGroup" /\ NoPreds(c.fn)
             sep == IF ~first THEN CallSep(c)
                    ELSE IF c.op = "WhereGroup" /\ keepFirstGroupSep THEN c.sep
                    ELSE ""
             body == IF c.op = "WhereGroup"
                     THEN "(" \o ExpectedFrom(fmter, c.fn, TRUE, FALSE) \o ")"
                     ELSE "(" \o PredText(fmter, c) \o ")"
         IN IF empty THEN ExpectedFrom(fmter, Tail(cs), first, keepFirstGroupSep)
            ELSE sep \o body \o ExpectedFrom(fmter, Tail(cs), FALSE, keepFirstGroupSep)

\* C7: a non-empty group renders as sep ( inner ), the inner predicates each
\* in parentheses and joined by their own separators, the first inner
\* separator suppressed, wherever the group sits and for groups built inside
\* fn.  A group that opens the list may render with or without its own
\* separator.
C7_GroupRender ==
    last.op = "appendWhere" /\ where # <<>> =>
        /\ res.err = NoErr
        /\ Text(res.b) \in
             { Text(last.b) \o " WHERE " \o ExpectedFrom(last.fmter, calls, TRUE, k) :
                 k \in BOOLEAN }

\* C8: mustAppendWhere fails with the "require a WHERE clause" error,
\* returning no buffer, exactly when the predicate list is empty and the
\* restrict-to-PK flag is unset; otherwise it returns what appendWhere does.
C8_MustAppendWhere ==
    last.op = "mustAppendWhere" =>
        IF where = <<>> /\ ~Has(flags, wherePKFlag)
        THEN res = Fail("bun: Update and Delete queries require Where clause (try WherePK)")
        ELSE /\ res = appendWhere(last.fmter, last.b)
             /\ res.err # "bun: Update and Delete queries require Where clause (try WherePK)"

\* C8 witness: with no predicate and the flag unset the call failed although
\* the bound table's soft-delete filter would have given a WHERE clause.
C8_Witness ==
    /\ last.op = "mustAppendWhere"
    /\ table = "users" /\ isSoftDelete
    /\ last.b # NilBuf
    /\ res.err = ErrRequireWhere /\ res.b = NilBuf

\* Zero predicates, restrict-to-PK set, a bound table with a primary key
C9_Case ==
    /\ last.op = "mustAppendWhere"
    /\ where = <<>>
    /\ Has(flags, wherePKFlag)
    /\ table # NoTable /\ Tables[table].PKs # <<>>

C9_PKText == Text(appendWherePK(last.fmter, NilBuf).b)

\* C9 as stated: in that case the WHERE clause holds only the primary-key
\* predicate, whether or not the table declares a soft-delete field.
C9_OnlyPK ==
    C9_Case =>
        /\ res.err = NoErr /\ ~res.panic
        /\ Text(res.b) = Text(last.b) \o " WHERE " \o C9_PKText

\* C9 amended: the WHERE clause holds only the primary-key predicate when the
\* table has no soft-delete field or IncludeAllWithDeleted is set; otherwise
\* the soft-delete clause and " AND " come before the primary-key predicate.
C9_PKAfterSoftDelete ==
    C9_Case =>
        /\ res.err = NoErr /\ ~res.panic
        /\ IF HasSoftDelete(table) /\ ~Has(flags, allWithDeletedFlag)
           THEN Text(res.b) =
                    Text(last.b) \o " WHERE " \o Tables[table].Alias \o "."
                    \o Tables[table].SoftDeleteField.SQLName
                    \o (IF Has(flags, deletedFlag) THEN " IS NOT NULL" ELSE " IS NULL")
                    \o " AND " \o C9_PKText
           ELSE Text(res.b) = Text(last.b) \o " WHERE " \o C9_PKText

\* C9 witness: the case on a table with a soft-delete field, rendered with
\* and the soft-delete clause in front of the primary-key predicate.
C9_Witness ==
    /\ C9_Case
    /\ table = "users" /\ ~Has(flags, allWithDeletedFlag)
    /\ last.fmter = "fmt" /\ last.b = NilBuf
    /\ tableModel.kind = "struct"
    /\ Text(res.b) = " WHERE u.deleted_at IS NULL AND (u.id = 1)"

\* "a.pk1 = v1 AND ... AND a.pkn = vn" for the PK fields from i on
RECURSIVE C10_Join(_)
C10_Join(i) ==
    LET pks == Tables[table].PKs
        v == IF last.fmter = "nop" THEN "?" ELSE tableModel.strct[pks[i].Name]
        one == Tables[table].Alias \o "." \o pks[i].SQLName \o " = " \o v
    IN IF i = Len(pks) THEN one ELSE one \o " AND " \o C10_Join(i + 1)

\* C10: for a single-entity model with PK columns pk1..pkn and alias a the
\* primary-key predicate is "(a.pk1 = v1 AND ... AND a.pkn = vn)" with the
\* entity's values in literal mode and "?" for every value in template mode.
C10_PKStruct ==
    last.op = "appendWherePK" /\ table # NoTable /\ tableModel.kind = "struct"
    /\ Tables[table].PKs # <<>> =>
        /\ res.err = NoErr /\ ~res.panic
        /\ Text(res.b) = Text(last.b) \o "(" \o C10_Join(1) \o ")"
        /\ table = "orders" /\ last.fmter = "fmt"
               => Text(res.b) = Text(last.b) \o "(t.id = 5 AND t.tenant = 'acme')"
        /\ table = "orders" /\ last.fmter = "nop"
               => Text(res.b) = Text(last.b) \o "(t.id = ? AND t.tenant = ?)"

\* C10 witness: the two-column key (id, tenant) of an entity (5, 'acme')
\* rendered in literal mode after a caller's prefix.
C10_Witness ==
    /\ last.op = "appendWherePK"
    /\ table = "orders" /\ tableModel.kind = "struct"
    /\ last.fmter = "fmt"
    /\ Text(res.b) = "/*q*/ (t.id = 5 AND t.tenant = 'acme')"

\* A bound slice of n >= 1 elements whose table has a one-column primary key
C11_Case ==
    /\ last.op = "appendWherePK"
    /\ table # NoTable /\ tableModel.kind = "slice"
    /\ Len(Tables[table].PKs) = 1
    /\ Len(tableModel.slice) >= 1

\* "v1, ..., vn": the PK values of the elements from i on, in slice order
RECURSIVE C11_Values(_)
C11_Values(i) ==
    LET v == tableModel.slice[i][Tables[table].PKs[1].Name] IN
    IF i = Len(tableModel.slice) THEN v ELSE v \o ", " \o C11_Values(i + 1)

C11_InList == IF last.fmter = "nop" THEN "?" ELSE C11_Values(1)

C12_NullOptOut ==
    last.op = "appendReturning" /\ Len(returning) = 1
    /\ returning[1].Query = "null" =>
        /\ ~hasReturning
        /\ res = Ok(last.b)

\* C12 witness: two fields were registered, then the single fragment "null"
\* was added, and the render into a caller's prefix added nothing.
C12_Witness ==
    /\ last.op = "appendReturning"
    /\ returning = <<SafeQuery("null", NilArgs)>>
    /\ returningFields = <<F_id, F_name>>
    /\ Text(last.b) = "/*q*/ "
    /\ res.b = last.b

\* The spellings of "null" a caller can pass
C13_NullSpellings == {"null", "NULL", "Null", "nUlL"}

\* C13: a single returning fragment whose text is "null" in any letter case
\* disables RETURNING: hasReturning is false and appendReturning adds nothing.
C13_AnyCaseOptOut ==
    last.op = "appendReturning" /\ Len(returning) = 1
    /\ returning[1].Query \in C13_NullSpellings =>
        /\ ~hasReturning
        /\ Text(res.b) = Text(last.b)

\* C14: a call of AppendQuery changes no builder field (lists, flags, model
\* binding, sticky error), also when it fails, so a render failure is not
\* recorded as the sticky error, and a second call with the same formatter
\* and buffer returns what the first returned.
C14_RenderFrame ==
    /\ [][last'.op = "AppendQuery" =>
            UNCHANGED <<baseVars, whereVars, indexVars, retVars>>]_vars
    /\ [][last.op = "AppendQuery" /\ last'.op = "AppendQuery"
            /\ last'.fmter = last.fmter /\ last'.b = last.b => res' = res]_vars

\* C14 witness: AppendQuery failed on a fragment that does not format while
\* the sticky error stayed unset and the predicate list stayed in place.
C14_Witness ==
    /\ last.op = "AppendQuery"
    /\ res.err = ErrFormat
    /\ err = NoErr
    /\ where # <<>>

\* The text of each of the three sources of the WHERE clause, "" if the
\* source gives none
C15_Predicates ==
    IF where = <<>> THEN "" ELSE Text(_appendWhere(last.fmter, NilBuf, where).b)

C15_SoftDelete ==
    IF table # NoTable /\ HasSoftDelete(table) /\ ~Has(flags, allWithDeletedFlag)
    THEN Tables[table].Alias \o "." \o Tables[table].SoftDeleteField.SQLName
             \o (IF Has(flags, deletedFlag) THEN " IS NOT NULL" ELSE " IS NULL")
    ELSE ""

C15_PK ==
    IF Has(flags, wherePKFlag) THEN Text(appendWherePK(last.fmter, NilBuf).b) ELSE ""

\* t appended to s, with " AND " between them if s is not empty
C15_And(s, t) == IF t = "" THEN s ELSE IF s = "" THEN t ELSE s \o " AND " \o t

\* C15: appendWhere emits the predicates, then the soft-delete clause, then
\* the primary-key predicate, with " AND " before the soft-delete clause and
\* before the PK predicate only if something follows the WHERE keyword
\* already; the soft-delete clause is "<alias>.<field> IS NOT NULL" with
\* OnlyDeleted and "... IS NULL" otherwise, and is absent with
\* IncludeAllWithDeleted or on a table without a soft-delete field.
C15_ClauseOrder ==
    last.op = "appendWhere" /\ res.err = NoErr /\ ~res.panic
    /\ (where # <<>> \/ C15_SoftDelete # "" \/ Has(flags, wherePKFlag)) =>
        Text(res.b) = Text(last.b) \o " WHERE "
            \o C15_And(C15_And(C15_Predicates, C15_SoftDelete), C15_PK)

\* C15 witness: one predicate, OnlyDeleted and the restrict-to-PK flag on a
\* table with a soft-delete field give all three sources in order.
C15_Witness ==
    /\ last.op = "appendWhere"
    /\ last.fmter = "fmt" /\ last.b = NilBuf
    /\ Text(res.b) = " WHERE (x) AND u.deleted_at IS NOT NULL AND (u.id = 1)"

\* C16: appendWhere never emits a bare WHERE keyword: when it writes
\* " WHERE " at least one character follows, also when every predicate has
\* an empty text and no arguments.
C16_NoBareWhere ==
    last.op = "appendWhere" /\ res.err = NoErr /\ ~res.panic =>
        Text(res.b) # Text(last.b) \o " WHERE "

\* C17: appendFirstTable writes the model-table expression if it is set;
\* else the bound table's SQL name, followed by " AS <alias>" only when
\* withAlias is asked for and the alias differs from the name; else the
\* first entry of the table list; and it fails with "query does not have a
\* table" exactly when none of the three exists.
C17_FirstTable ==
    last.op = "appendFirstTable" =>
        /\ IF ~IsZero(modelTable)
           THEN res.err = NoErr /\ Text(res.b) = Text(last.b) \o modelTable.Query
           ELSE IF table # NoTable
           THEN /\ res.err = NoErr
                /\ Text(res.b) =
                     Text(last.b) \o Tables[table].SQLName
                         \o (IF last.withAlias /\ Tables[table].Alias # Tables[table].SQLName
                             THEN " AS " \o Tables[table].Alias ELSE "")
           ELSE IF tables # <<>>
           THEN res.err = NoErr /\ Text(res.b) = Text(last.b) \o tables[1].Query
           ELSE res.b = NilBuf
        /\ res.err = "bun: query does not have a table" <=> NoTableResolvable
        /\ ~res.panic

\* C17 witness: a bound table whose alias differs from its name rendered
\* with its alias while the table list holds entries too.
C17_Witness ==
    /\ last.op = "appendFirstTable"
    /\ last.withAlias /\ last.b = NilBuf
    /\ IsZero(modelTable) /\ tables # <<>>
    /\ Text(res.b) = "orders AS t"

\* The texts of the entries of ts joined by ", "
RECURSIVE C18_Join(_)
C18_Join(ts) ==
    IF ts = <<>> THEN ""
    ELSE IF Len(ts) = 1 THEN ts[1].Query
    ELSE ts[1].Query \o ", " \o C18_Join(Tail(ts))

\* The table list without the entry that appendFirstTable renders
C18_Rest ==
    IF ~IsZero(modelTable) \/ table # NoTable \/ tables = <<>> THEN tables
    ELSE Tail(tables)

\* C18: appendOtherTables writes the table list in insertion order joined by
\* ", ", without its first entry exactly when there is neither a model-table
\* expression nor a bound table, so that appendFirstTable and
\* appendOtherTables together render every entry of the list once.
C18_OtherTables ==
    last.op = "appendOtherTables" =>
        /\ ~res.panic /\ res.err = NoErr
        /\ Text(res.b) = Text(last.b) \o C18_Join(C18_Rest)
        /\ C18_Rest # tables /\ C18_Rest # <<>> =>
               Text(appendFirstTable(last.fmter, NilBuf).b) \o ", "
                   \o C18_Join(C18_Rest) = C18_Join(tables)

\* Wherever a first table exists appendOtherTables renders as C18 says.
C18_WithFirstTable ==
    last.op = "appendOtherTables" /\ ~NoTableResolvable =>
        /\ ~res.panic /\ res.err = NoErr
        /\ Text(res.b) = Text(last.b) \o C18_Join(C18_Rest)

\* The names of the column fragments without arguments, in list order
C19_Names == SelectSeq(columns.elems, LAMBDA col : col.Args.isNil)

C19_FieldNames == {Tables[table].Fields[i].Name : i \in DOMAIN Tables[table].Fields}

C19_FieldOf(name) ==
    CHOOSE f \in {Tables[table].Fields[i] : i \in DOMAIN Tables[table].Fields} :
        f.Name = name

\* The fields the names resolve to, without the primary-key fields if omitPK
RECURSIVE C19_Resolve(_, _)
C19_Resolve(names, omitPK) ==
    IF names = <<>> THEN <<>>
    ELSE LET f == C19_FieldOf(Head(names).Query) IN
         (IF omitPK /\ f.IsPK THEN <<>> ELSE <<f>>) \o C19_Resolve(Tail(names), omitPK)

C19_NonPK(fields) == SelectSeq(fields, LAMBDA f : ~f.IsPK)

\* C19: on a bound table, with no column list getFields returns the table's
\* fields and getDataFields its non-PK fields; with a column list they
\* return, in list order, the field of every fragment without arguments
\* (getDataFields without the primary-key fields), skipping fragments with
\* arguments, and fail with the unknown-column error and no fields if one
\* of those names is not a field of the table.
C19_ResolveFields ==
    last.op \in {"getFields", "getDataFields"} /\ table # NoTable =>
        LET omitPK == last.op = "getDataFields" IN
        /\ ~res.panic
        /\ IF columns.elems = <<>>
           THEN res = FieldsOk(IF omitPK THEN C19_NonPK(Tables[table].Fields)
                               ELSE Tables[table].Fields)
           ELSE IF \E i \in DOMAIN C19_Names : C19_Names[i].Query \notin C19_FieldNames
           THEN /\ res.fields = <<>>
                /\ \E i \in DOMAIN C19_Names :
                       /\ C19_Names[i].Query \notin C19_FieldNames
                       /\ res.err = ErrUnknownColumn(table, C19_Names[i].Query)
           ELSE res = FieldsOk(C19_Resolve(C19_Names, omitPK))

\* C19 witness: getDataFields on the column list note, id, "id" with
\* arguments returned the field note only.
C19_Witness ==
    /\ last.op = "getDataFields"
    /\ table = "orders"
    /\ columns.elems = <<UnsafeIdent("note"), UnsafeIdent("id"),
                          SafeQuery("id", ArgsOf(<<>>))>>
    /\ res = FieldsOk(<<F_note>>)

\* s is the beginning of t
C20_Prefix(s, t) == Len(s) <= Len(t) /\ SubSeq(t, 1, Len(s)) = s

C20_List(list) == C18_Join(list)

\* The statement the builder state is to render to
C20_Statement(fmter) ==
    "CREATE " \o (IF unique THEN "UNIQUE " ELSE "") \o "INDEX "
        \o (IF concurrently THEN "CONCURRENTLY " ELSE "")
        \o (IF ifNotExists THEN "IF NOT EXISTS " ELSE "")
        \o index.Query
        \o " ON " \o Text(appendFirstTable(fmter, NilBuf).b)
        \o (IF IsZero(using) THEN "" ELSE " USING " \o using.Query)
        \o " (" \o C20_List(columns.elems) \o ")"
        \o (IF include = <<>> THEN "" ELSE " INCLUDE (" \o C20_List(include) \o ")")
        \o Text(appendWhere(fmter, NilBuf).b)

\* The fields each non-append mutator leaves alone
C20_SetterFrames ==
    /\ last'.op = "Unique" =>
          unique' /\ UNCHANGED <<baseVars, whereVars, retVars, concurrently,
                                  ifNotExists, index, using, include>>
    /\ last'.op = "Concurrently" =>
          concurrently' /\ UNCHANGED <<baseVars, whereVars, retVars, unique,
                                        ifNotExists, index, using, include>>
    /\ last'.op = "IfNotExists" =>
          ifNotExists' /\ UNCHANGED <<baseVars, whereVars, retVars, unique,
                                       concurrently, index, using, include>>
    /\ last'.op = "Index" =>
          index' = SafeQuery("idx", NilArgs)
          /\ UNCHANGED <<baseVars, whereVars, retVars, unique, concurrently,
                          ifNotExists, using, include>>
    /\ last'.op = "Using" =>
          using' = SafeQuery("gin", NilArgs)
          /\ UNCHANGED <<baseVars, whereVars, retVars, unique, concurrently,
                          ifNotExists, index, include>>
    /\ last'.op = "ModelTableExpr" =>
          modelTable' = SafeQuery("mt", NilArgs)
          /\ UNCHANGED <<err, model, tableModel, table, tables, columns, flags,
                          whereVars, retVars, indexVars>>
    /\ last'.op = "ExcludeColumn" =>
          UNCHANGED <<model, tableModel, table, modelTable, tables, flags,
                      whereVars, retVars, indexVars>>

\* The lists only grow at their end
C20_Appends ==
    /\ C20_Prefix(tables, tables')
    /\ C20_Prefix(include, include')
    /\ C20_Prefix(where, where')
    /\ last'.op # "ExcludeColumn" => C20_Prefix(columns.elems, columns'.elems)

\* C20: AppendQuery writes CREATE, UNIQUE, INDEX, CONCURRENTLY, IF NOT
\* EXISTS, the index expression, ON and the first table, USING and the
\* method, the column list in parentheses, the INCLUDE list and the WHERE
\* clause in this order, from the builder state alone; Unique, Concurrently,
\* IfNotExists, Index, Using and ModelTableExpr assign one field to a value
\* that does not depend on the state and touch no other field, so repeating
\* one or permuting different ones gives the same state; and the table,
\* column, include and predicate lists hold their entries in call order.
C20_FixedOrder ==
    /\ [](last.op = "AppendQuery" /\ res.err = NoErr /\ ~res.panic =>
              Text(res.b) = Text(last.b) \o C20_Statement(last.fmter))
    /\ [][C20_SetterFrames]_vars
    /\ [][C20_Appends]_vars

\* C20 witness: every switch set, two columns added in the order c2, c1 and
\* the statement rendered with all of its optional tokens but INCLUDE.
C20_Witness ==
    /\ last.op = "AppendQuery" /\ last.b = NilBuf
    /\ Text(res.b) = "CREATE UNIQUE INDEX CONCURRENTLY IF NOT EXISTS idx ON users"
                          \o " USING gin (c2, c1) WHERE u.deleted_at IS NULL"

\* The SQL names of fields joined by ", "
RECURSIVE C21_FieldNames(_)
C21_FieldNames(fields) ==
    IF fields = <<>> THEN ""
    ELSE IF Len(fields) = 1 THEN fields[1].SQLName
    ELSE fields[1].SQLName \o ", " \o C21_FieldNames(Tail(fields))

\* Once an expression was added addReturningField adds nothing
C21_FieldsAfterExprs ==
    last'.op = "addReturningField" /\ returning # <<>> =>
        returningFields' = returningFields

\* What appendReturning is to write when the expressions win
C21_Clause ==
    IF returning # <<>> THEN " RETURNING " \o C18_Join(returning)
    ELSE IF returningFields # <<>>
    THEN " RETURNING " \o C21_FieldNames(returningFields)
    ELSE ""

\* C21 as stated: once an expression was added addReturningField adds
\* nothing, and appendReturning writes " RETURNING " and the expressions
\* only, in insertion order, whatever fields were registered before; with
\* no expression it writes the registered fields' SQL names, unqualified and
\* joined by ", ".
C21_ExprsWin ==
    /\ [][C21_FieldsAfterExprs]_vars
    /\ [](last.op = "appendReturning" /\ res.err = NoErr =>
              Text(res.b) = Text(last.b) \o C21_Clause)

\* C21 amended: as stated, except that a list of exactly one expression
\* whose text is "null" or "NULL" writes nothing at all.
C21_ExprsWinUnlessNull ==
    /\ [][C21_FieldsAfterExprs]_vars
    /\ [](last.op = "appendReturning" /\ res.err = NoErr =>
              IF Len(returning) = 1 /\ returning[1].Query \in {"null", "NULL"}
              THEN res.b = last.b
              ELSE Text(res.b) = Text(last.b) \o C21_Clause)

\* C21 witness: two fields were registered, then the expressions id and
\* NULL were added; the render shows the expressions only.
C21_Witness ==
    /\ last.op = "appendReturning" /\ last.b = NilBuf
    /\ returningFields = <<F_name, F_id>>
    /\ Len(returning) = 2
    /\ Text(res.b) = " RETURNING id, NULL"

\* What a chunk written by _appendWhere adds to the depth of open
\* parentheses: the group markers' separators open or close a group, "(" and
\* ")" enclose a predicate, every other chunk (a separator, a predicate
\* text) is balanced in itself.
C22_Delta(chunk) ==
    IF chunk \in {"(", SepAnd \o "(", SepOr \o "("} THEN 1
    ELSE IF chunk = ")" THEN -1
    ELSE 0

\* The chunks from i on close only what is open and leave nothing open
RECURSIVE C22_BalancedFrom(_, _, _)
C22_BalancedFrom(chunks, i, depth) ==
    IF depth < 0 THEN FALSE
    ELSE IF i > Len(chunks) THEN depth = 0
    ELSE C22_BalancedFrom(chunks, i + 1, depth + C22_Delta(chunks[i]))

\* C22: for every sequence of Where / WhereOr / WhereGroup calls, a group
\* first in the list and a group first in a callback included, the text
\* rendered for the predicate list has balanced parentheses: every ")"
\* closes an earlier "(" and none stays open.
C22_BalancedParens ==
    last.op = "appendWhere" /\ res.err = NoErr /\ ~res.panic =>
        C22_BalancedFrom(res.b.chunks, 1, 0)

\* C23: every builder call and render step on a state reachable from a fresh
\* query completes or returns an error value; none reads an absent table
\* descriptor or slices past the end of a list.
C23_Total == last.out # "panic"

\* Where C23 fails: each of these is a call that does not return.
C23_ExcludeColumnTotal == last.op = "ExcludeColumn" => last.out # "panic"
C23_OtherTablesTotal == last.op = "appendOtherTables" => last.out # "panic"
C23_WhereTotal ==
    last.op \in {"appendWhere", "mustAppendWhere", "AppendQuery"} => last.out # "panic"
C23_FieldsTotal == last.op \in {"getFields", "getDataFields"} => last.out # "panic"

\* The names ExcludeColumn has removed so far: the fields of the bound table
\* that the column list, filled from the table by the first exclusion, no
\* longer holds
C24_Removed ==
    IF columns.isNil THEN {}
    ELSE {Tables[table].Fields[i].Name : i \in DOMAIN Tables[table].Fields}
             \ {columns.elems[i].Query : i \in DOMAIN columns.elems}

\* C24: after any sequence of exclusions on a bound table, getFields and
\* getDataFields return no field that an exclusion removed; when every
\* column was excluded they return no field.
C24_ExcludedStayOut ==
    last.op \in {"getFields", "getDataFields"} /\ table # NoTable
    /\ res.err = NoErr /\ ~res.panic =>
        \A i \in DOMAIN res.fields : res.fields[i].Name \notin C24_Removed

\* As long as one column is left the excluded ones are not returned.
C24_WhileColumnsLeft ==
    last.op \in {"getFields", "getDataFields"} /\ table # NoTable
    /\ res.err = NoErr /\ ~res.panic /\ columns.elems # <<>> =>
        \A i \in DOMAIN res.fields : res.fields[i].Name \notin C24_Removed

====
